---- MODULE Spec2Model ----
(***************************************************************************)
(* CloudSentinel (src/agents/cloud_sentinel.py): ensure_api, ensure_role   *)
(* and ensure_environment running against the remote service-usage and     *)
(* IAM services.  Every remote call is one step; the local code between    *)
(* two remote calls belongs to the step of the call that follows or        *)
(* precedes it.  A remote call either answers or raises.                   *)
(***************************************************************************)
EXTENDS Integers, Sequences, FiniteSets, TLC

\* ------------------------------------------------------------------ bounds
\* how many entries of required_apis the model keeps
NumApis == 2
\* the largest number of bindings of an initial remote policy
MaxBindings == 2

\* --------------------------------------------------------------- constants
AllRequiredApis ==
  << "serviceusage.googleapis.com", "iam.googleapis.com",
     "secretmanager.googleapis.com", "cloudbuild.googleapis.com",
     "cloudresourcemanager.googleapis.com", "logging.googleapis.com",
     "monitoring.googleapis.com" >>

critical_roles ==
  << "roles/secretmanager.secretAccessor",
     "roles/secretmanager.secretVersionManager",
     "roles/cloudbuild.builds.builder", "roles/logging.logWriter",
     "roles/monitoring.metricWriter" >>

required_apis == SubSeq(AllRequiredApis, 1, NumApis)

Range(s) == {s[i] : i \in 1..Len(s)}

Callers == {1, 2}
Apis == Range(required_apis)
\* roles a policy may bind: two critical ones and one that is not critical
OtherRole == "roles/viewer"
Roles == {critical_roles[1], critical_roles[2], OtherRole}
SaEmails == {"svcA", "svcB"}
None == "-"

\* a policy member is "<kind>:<name>", kept as the pair <<kind, name>>
Member(sa_email) == <<"serviceAccount", sa_email>>
UserMember == <<"user", "u1">>

\* ------------------------------------------------------------ remote state
SvcStates == {"ENABLED", "DISABLED", "ABSENT"}

\* the member lists the initial policies are built from
MemberLists ==
  { <<>>, <<Member("svcA")>>, <<UserMember, Member("svcB")>> }

Bindings == [role : Roles, members : MemberLists]

SeqsUpTo(S, n) == UNION {[1..k -> S] : k \in 0..n}

InitPolicies == SeqsUpTo(Bindings, MaxBindings)

VARIABLES
  svc,        \* remote: API name -> state the service-usage service holds
  policy,     \* remote: the project's IAM policy, a sequence of bindings
  pc,         \* per caller: the remote call it is about to make
  ctx,        \* per caller: the public operation it is running
  arg,        \* per caller: the operation's arguments
  calls,      \* per caller: the remote calls the operation has issued
  ret,        \* per caller: the boolean the operation returned
  snap,       \* per caller: the policy get_iam_policy returned
  wrote,      \* per caller: the policy handed to set_iam_policy
  idx,        \* per caller: position of _ensure_required_apis in its loop
  enabled,    \* per caller: _ensure_required_apis' list `enabled`
  failed,     \* per caller: _ensure_required_apis' list `failed`
  apiRets,    \* per caller: what ensure_api returned, in call order
  results,    \* per caller: ensure_environment's report
  passes,     \* per caller: the sub-passes ensure_environment has called
  returned,   \* per caller: what each completed sub-pass returned
  service,    \* per caller: service.state as get_service answered it
  exc,        \* per caller: message of the exception raised last
  lastWriter  \* the caller whose set_iam_policy the remote accepted last

vars == << svc, policy, pc, ctx, arg, calls, ret, snap, wrote, idx, enabled,
           failed, apiRets, results, passes, returned, service, exc,
           lastWriter >>

remoteVars == << svc, policy, lastWriter >>
roleVars == << snap, wrote >>
envVars == << idx, enabled, failed, apiRets, results, passes, returned >>

NoArg == [name |-> None, sa_email |-> None, role |-> None]

NoResults ==
  [ apis_enabled |-> <<>>, apis_failed |-> <<>>,
    permissions_valid |-> <<>>, permissions_missing |-> <<>>,
    keys_rotated |-> <<>>, keys_failed |-> <<>>,
    overall_status |-> None, error |-> None ]

\* the report ensure_environment starts from
NewResults == [NoResults EXCEPT !.overall_status = "unknown"]

IdleCaller ==
  /\ pc = [c \in Callers |-> "idle"]
  /\ ctx = [c \in Callers |-> None]
  /\ arg = [c \in Callers |-> NoArg]
  /\ calls = [c \in Callers |-> <<>>]
  /\ ret = [c \in Callers |-> FALSE]
  /\ snap = [c \in Callers |-> <<>>]
  /\ wrote = [c \in Callers |-> <<>>]
  /\ idx = [c \in Callers |-> 0]
  /\ enabled = [c \in Callers |-> <<>>]
  /\ failed = [c \in Callers |-> <<>>]
  /\ apiRets = [c \in Callers |-> <<>>]
  /\ results = [c \in Callers |-> NoResults]
  /\ passes = [c \in Callers |-> <<>>]
  /\ returned = [c \in Callers |-> <<>>]
  /\ service = [c \in Callers |-> None]
  /\ exc = [c \in Callers |-> None]
  /\ lastWriter = 0

\* ------------------------------------------------- how an operation ends
\* the variables every way of ending a step decides
localVars == << pc, ret, arg, idx, enabled, failed, apiRets, results,
                passes, returned >>

Finish(c, p, r) ==
  /\ pc' = [pc EXCEPT ![c] = p]
  /\ ret' = [ret EXCEPT ![c] = r]
  /\ UNCHANGED << arg, idx, enabled, failed, apiRets, results, passes, returned >>

\* an exception leaves the public operation: the caller sees it
Raised(c, msg) == Finish(c, "raised", ret[c])

\* variant: the handler lets the exception through
EnvExceptReraises(c, msg) == Raised(c, msg)

\* ensure_environment's handler: except Exception as e
EnvExcept(c, msg) ==
  /\ results' = [results EXCEPT ![c].overall_status = "error",
                                ![c].error = msg]
  /\ pc' = [pc EXCEPT ![c] = "done"]
  /\ UNCHANGED << ret, arg, idx, enabled, failed, apiRets, passes, returned >>

\* an exception leaves ensure_api, ensure_role or a sub-pass
Escape(c, msg) ==
  IF ctx[c] = "ensure_environment" THEN EnvExcept(c, msg) ELSE Raised(c, msg)

\* variant: _ensure_required_apis leaves its loop at the first failure
ApiReturnStopsAtFailure(c, b) ==
  IF ctx[c] = "ensure_api"
  THEN Finish(c, "done", b)
  ELSE LET en == IF b THEN Append(enabled[c], arg[c].name) ELSE enabled[c]
           fa == IF b THEN failed[c] ELSE Append(failed[c], arg[c].name)
           last == idx[c] >= Len(required_apis) \/ ~b
       IN /\ enabled' = [enabled EXCEPT ![c] = en]
          /\ failed' = [failed EXCEPT ![c] = fa]
          /\ apiRets' = [apiRets EXCEPT ![c] = Append(@, b)]
          /\ idx' = [idx EXCEPT ![c] = IF last THEN @ ELSE @ + 1]
          /\ arg' = [arg EXCEPT ![c].name =
                       IF last THEN @ ELSE required_apis[idx[c] + 1]]
          /\ pc' = [pc EXCEPT ![c] =
                      IF last THEN "validate" ELSE "get_service"]
          /\ results' = [results EXCEPT
                           ![c].apis_enabled = IF last THEN en ELSE @,
                           ![c].apis_failed = IF last THEN fa ELSE @]
          /\ returned' = [returned EXCEPT ![c] =
                            IF last THEN Append(@, <<en, fa>>) ELSE @]
          /\ passes' = [passes EXCEPT ![c] =
                          IF last THEN Append(@, "iam") ELSE @]
          /\ UNCHANGED ret

\* ensure_api returns b: to its caller, or into _ensure_required_apis' loop,
\* which files the API under enabled or failed and goes on with the next one;
\* after the last one ensure_environment stores both lists and calls
\* _validate_iam_permissions
ApiReturn(c, b) ==
  IF ctx[c] = "ensure_api"
  THEN Finish(c, "done", b)
  ELSE LET en == IF b THEN Append(enabled[c], arg[c].name) ELSE enabled[c]
           fa == IF b THEN failed[c] ELSE Append(failed[c], arg[c].name)
           last == idx[c] >= Len(required_apis)
       IN /\ enabled' = [enabled EXCEPT ![c] = en]
          /\ failed' = [failed EXCEPT ![c] = fa]
          /\ apiRets' = [apiRets EXCEPT ![c] = Append(@, b)]
          /\ idx' = [idx EXCEPT ![c] = IF last THEN @ ELSE @ + 1]
          /\ arg' = [arg EXCEPT ![c].name =
                       IF last THEN @ ELSE required_apis[idx[c] + 1]]
          /\ pc' = [pc EXCEPT ![c] =
                      IF last THEN "validate" ELSE "get_service"]
          /\ results' = [results EXCEPT
                           ![c].apis_enabled = IF last THEN en ELSE @,
                           ![c].apis_failed = IF last THEN fa ELSE @]
          /\ returned' = [returned EXCEPT ![c] =
                            IF last THEN Append(@, <<en, fa>>) ELSE @]
          /\ passes' = [passes EXCEPT ![c] =
                          IF last THEN Append(@, "iam") ELSE @]
          /\ UNCHANGED ret

\* the remote calls of the per-resource operation at hand: the log starts
\* anew when _ensure_required_apis calls ensure_api for the next API
Issue(c, call) ==
  calls' = [calls EXCEPT ![c] =
              IF call \in {"get_service", "get_iam_policy"}
              THEN <<call>> ELSE Append(@, call)]

\* variant: the handler lets the exception through
EnsureApiExceptReraises(c, msg) == Escape(c, msg)

\* ensure_api's handler: except Exception as e -> return False
EnsureApiExcept(c, msg) == ApiReturn(c, FALSE)

\* a remote call raises / answers
Raise(c, msg) == exc' = [exc EXCEPT ![c] = msg]
Answer(c, state) == service' = [service EXCEPT ![c] = state]

\* -------------------------------------------------------------- ensure_api
CallEnsureApi(c, name) ==
  /\ pc[c] = "idle"
  /\ ctx' = [ctx EXCEPT ![c] = "ensure_api"]
  /\ arg' = [arg EXCEPT ![c] = [NoArg EXCEPT !.name = name]]
  /\ pc' = [pc EXCEPT ![c] = "get_service"]
  /\ UNCHANGED << calls, ret, service, exc, remoteVars, roleVars, envVars >>

\* variant: the answer's state is not looked at, the enable always follows
GetServiceOkAlwaysEnables(c) ==
  /\ pc[c] = "get_service"
  /\ svc[arg[c].name] # "ABSENT"
  /\ Issue(c, "get_service")
  /\ Answer(c, svc[arg[c].name])
  /\ Finish(c, "enable_service", ret[c])
  /\ UNCHANGED << ctx, exc, remoteVars, roleVars >>

\* get_service answers; ENABLED returns True, any other state falls through
GetServiceOk(c) ==
  /\ pc[c] = "get_service"
  /\ svc[arg[c].name] # "ABSENT"
  /\ Issue(c, "get_service")
  /\ Answer(c, svc[arg[c].name])
  /\ IF svc[arg[c].name] = "ENABLED"
     THEN ApiReturn(c, TRUE)
     ELSE Finish(c, "enable_service", ret[c])
  /\ UNCHANGED << ctx, exc, remoteVars, roleVars >>

\* get_service raises NotFound: logged, then the enable is attempted
GetServiceNotFound(c) ==
  /\ pc[c] = "get_service"
  /\ svc[arg[c].name] = "ABSENT"
  /\ Issue(c, "get_service")
  /\ Answer(c, None)
  /\ Raise(c, "NotFound")
  /\ Finish(c, "enable_service", ret[c])
  /\ UNCHANGED << ctx, remoteVars, roleVars >>

\* get_service raises anything else (permission denied, provider error)
GetServiceError(c) ==
  /\ pc[c] = "get_service"
  /\ Issue(c, "get_service")
  /\ Answer(c, None)
  /\ Raise(c, "get_service failed")
  /\ EnsureApiExcept(c, "get_service failed")
  /\ UNCHANGED << ctx, remoteVars, roleVars >>

EnableServiceOk(c) ==
  /\ pc[c] = "enable_service"
  /\ Issue(c, "enable_service")
  /\ Finish(c, "result", ret[c])
  /\ UNCHANGED << ctx, service, exc, remoteVars, roleVars >>

EnableServiceError(c) ==
  /\ pc[c] = "enable_service"
  /\ Issue(c, "enable_service")
  /\ Raise(c, "enable_service failed")
  /\ EnsureApiExcept(c, "enable_service failed")
  /\ UNCHANGED << ctx, service, remoteVars, roleVars >>

\* operation.result(timeout=300) returns: the service is enabled
OperationResultOk(c) ==
  /\ pc[c] = "result"
  /\ Issue(c, "result")
  /\ svc' = [svc EXCEPT ![arg[c].name] = "ENABLED"]
  /\ ApiReturn(c, TRUE)
  /\ UNCHANGED << ctx, service, exc, policy, lastWriter, roleVars >>

\* operation.result raises (timeout, operation failed)
OperationResultError(c) ==
  /\ pc[c] = "result"
  /\ Issue(c, "result")
  /\ Raise(c, "result failed")
  /\ EnsureApiExcept(c, "result failed")
  /\ UNCHANGED << ctx, service, remoteVars, roleVars >>

EnsureApiStep(c) ==
  \/ GetServiceOk(c)
  \/ GetServiceNotFound(c)
  \/ GetServiceError(c)
  \/ EnableServiceOk(c)
  \/ EnableServiceError(c)
  \/ OperationResultOk(c)
  \/ OperationResultError(c)

\* ------------------------------------------------------------- ensure_role
InSeq(x, s) == \E i \in 1..Len(s) : s[i] = x

\* the scan for a binding with this role that already holds the member
RoleAssigned(pol, member, role) ==
  \E i \in 1..Len(pol) : pol[i].role = role /\ InSeq(member, pol[i].members)

\* variant: the member replaces the members of the role's binding
AddBindingReplacesMembers(pol, member, role) ==
  LET with == {i \in 1..Len(pol) : pol[i].role = role}
  IN IF with # {}
     THEN LET k == CHOOSE i \in with : \A j \in with : i <= j
          IN [pol EXCEPT ![k].members = <<member>>]
     ELSE Append(pol, [role |-> role, members |-> <<member>>])

\* variant: a new binding is appended even when the role has one
AddBindingAlwaysNew(pol, member, role) ==
  Append(pol, [role |-> role, members |-> <<member>>])

\* variant: the new binding is built but not appended
AddBindingForgetsNew(pol, member, role) ==
  LET with == {i \in 1..Len(pol) : pol[i].role = role}
  IN IF with # {}
     THEN LET k == CHOOSE i \in with : \A j \in with : i <= j
          IN [pol EXCEPT ![k].members = Append(@, member)]
     ELSE pol

\* the policy after the local edit: the member appended to the first binding
\* of the role, or a new binding [role, [member]] appended to the policy
AddBinding(pol, member, role) ==
  LET with == {i \in 1..Len(pol) : pol[i].role = role}
  IN IF with # {}
     THEN LET k == CHOOSE i \in with : \A j \in with : i <= j
          IN [pol EXCEPT ![k].members = Append(@, member)]
     ELSE Append(pol, [role |-> role, members |-> <<member>>])

RoleReturn(c, b) == Finish(c, "done", b)

\* ensure_role's handler: except Exception as e -> return False
EnsureRoleExcept(c, msg) == RoleReturn(c, FALSE)

CallEnsureRole(c, sa_email, role) ==
  /\ pc[c] = "idle"
  /\ ctx' = [ctx EXCEPT ![c] = "ensure_role"]
  /\ arg' = [arg EXCEPT ![c] =
               [NoArg EXCEPT !.sa_email = sa_email, !.role = role]]
  /\ pc' = [pc EXCEPT ![c] = "get_iam_policy"]
  /\ UNCHANGED << calls, ret, service, exc, remoteVars, roleVars, envVars >>

\* variant: the scan for an existing assignment is skipped
GetIamPolicyOkNoScan(c) ==
  /\ pc[c] = "get_iam_policy"
  /\ Issue(c, "get_iam_policy")
  /\ snap' = [snap EXCEPT ![c] = policy]
  /\ Finish(c, "set_iam_policy", ret[c])
  /\ UNCHANGED << ctx, service, exc, remoteVars, wrote >>

\* get_iam_policy answers with the remote policy; an assigned role returns
\* True at once
GetIamPolicyOk(c) ==
  /\ pc[c] = "get_iam_policy"
  /\ Issue(c, "get_iam_policy")
  /\ snap' = [snap EXCEPT ![c] = policy]
  /\ IF RoleAssigned(policy, Member(arg[c].sa_email), arg[c].role)
     THEN RoleReturn(c, TRUE)
     ELSE Finish(c, "set_iam_policy", ret[c])
  /\ UNCHANGED << ctx, service, exc, remoteVars, wrote >>

GetIamPolicyError(c) ==
  /\ pc[c] = "get_iam_policy"
  /\ Issue(c, "get_iam_policy")
  /\ Raise(c, "get_iam_policy failed")
  /\ EnsureRoleExcept(c, "get_iam_policy failed")
  /\ UNCHANGED << ctx, service, remoteVars, roleVars >>

\* variant: the remote applies the caller's edit to the policy it holds
SetIamPolicyOkMerges(c) ==
  /\ pc[c] = "set_iam_policy"
  /\ Issue(c, "set_iam_policy")
  /\ wrote' = [wrote EXCEPT ![c] =
                 AddBinding(snap[c], Member(arg[c].sa_email), arg[c].role)]
  /\ policy' = AddBinding(policy, Member(arg[c].sa_email), arg[c].role)
  /\ lastWriter' = c
  /\ RoleReturn(c, TRUE)
  /\ UNCHANGED << ctx, service, exc, svc, snap >>

\* set_iam_policy(resource, policy): the remote policy becomes the one sent
SetIamPolicyOk(c) ==
  /\ pc[c] = "set_iam_policy"
  /\ Issue(c, "set_iam_policy")
  /\ wrote' = [wrote EXCEPT ![c] =
                 AddBinding(snap[c], Member(arg[c].sa_email), arg[c].role)]
  /\ policy' = wrote'[c]
  /\ lastWriter' = c
  /\ RoleReturn(c, TRUE)
  /\ UNCHANGED << ctx, service, exc, svc, snap >>

SetIamPolicyError(c) ==
  /\ pc[c] = "set_iam_policy"
  /\ Issue(c, "set_iam_policy")
  /\ wrote' = [wrote EXCEPT ![c] =
                 AddBinding(snap[c], Member(arg[c].sa_email), arg[c].role)]
  /\ Raise(c, "set_iam_policy failed")
  /\ EnsureRoleExcept(c, "set_iam_policy failed")
  /\ UNCHANGED << ctx, service, remoteVars, snap >>

EnsureRoleStep(c) ==
  \/ GetIamPolicyOk(c)
  \/ GetIamPolicyError(c)
  \/ SetIamPolicyOk(c)
  \/ SetIamPolicyError(c)

\* ------------------------------------------------------ ensure_environment
\* variant: only the first binding of the policy is looked at
has_roleFirstBindingOnly(sa_email, role, pol) ==
  /\ Len(pol) >= 1
  /\ pol[1].role = role
  /\ InSeq(Member(sa_email), pol[1].members)

\* _has_role(sa_email, role, policy)
_has_role(sa_email, role, pol) ==
  \E i \in 1..Len(pol) :
     pol[i].role = role /\ InSeq(Member(sa_email), pol[i].members)

\* the service accounts found in the members of the bindings: the members
\* that start with "serviceAccount:", with that prefix removed
ServiceAccounts(pol) ==
  { m[2] : m \in { n \in UNION {Range(pol[i].members) : i \in 1..Len(pol)} :
                     n[1] = "serviceAccount" } }

\* the orders in which a Python set of these elements may be iterated
Orders(S) ==
  { s \in [1..Cardinality(S) -> S] :
      \A i, j \in 1..Cardinality(S) : i # j => s[i] # s[j] }

\* "{sa_email}:{role}" for every account, in iteration order, and every
\* critical role, in list order; kept as the pair <<sa_email, role>>
Checked(order) ==
  [ k \in 1..(Len(order) * Len(critical_roles)) |->
      << order[((k - 1) \div Len(critical_roles)) + 1],
         critical_roles[((k - 1) % Len(critical_roles)) + 1] >> ]

Valid(order, pol) ==
  LET Holds(e) == _has_role(e[1], e[2], pol) IN SelectSeq(Checked(order), Holds)

Missing(order, pol) ==
  LET Lacks(e) == ~_has_role(e[1], e[2], pol) IN SelectSeq(Checked(order), Lacks)

\* _validate_iam_permissions returns; ensure_environment stores both lists
\* and calls _rotate_service_account_keys
IamReturn(c, valid, missing) ==
  /\ results' = [results EXCEPT ![c].permissions_valid = valid,
                                ![c].permissions_missing = missing]
  /\ returned' = [returned EXCEPT ![c] = Append(@, <<valid, missing>>)]
  /\ passes' = [passes EXCEPT ![c] = Append(@, "keys")]
  /\ pc' = [pc EXCEPT ![c] = "rotate"]
  /\ UNCHANGED << ret, arg, idx, enabled, failed, apiRets >>

\* variant: the handler lets the exception through
ValidateExceptReraises(c, valid, missing, msg) == Escape(c, msg)

\* variant: the handler logs the exception and files nothing
ValidateExceptFilesNothing(c, valid, missing, msg) == IamReturn(c, valid, missing)

\* _validate_iam_permissions' handler: one "validation_error: ..." entry
ValidateExcept(c, valid, missing, msg) ==
  IamReturn(c, valid, Append(missing, <<"validation_error", msg>>))

\* variant: permissions_missing left out of the test
OverallStatusIgnoresMissing(r) ==
  IF r.apis_failed # <<>> \/ r.keys_failed # <<>>
  THEN "issues_found"
  ELSE "healthy"

\* the status ensure_environment derives from the lists
OverallStatus(r) ==
  IF r.apis_failed # <<>> \/ r.permissions_missing # <<>> \/ r.keys_failed # <<>>
  THEN "issues_found"
  ELSE "healthy"

CallEnsureEnvironment(c) ==
  /\ pc[c] = "idle"
  /\ ctx' = [ctx EXCEPT ![c] = "ensure_environment"]
  /\ results' = [results EXCEPT ![c] = NewResults]
  /\ passes' = [passes EXCEPT ![c] = <<"api">>]
  /\ idx' = [idx EXCEPT ![c] = 1]
  /\ arg' = [arg EXCEPT ![c] = [NoArg EXCEPT !.name = required_apis[1]]]
  /\ pc' = [pc EXCEPT ![c] = "get_service"]
  /\ UNCHANGED << calls, ret, service, exc, remoteVars, roleVars, enabled,
                  failed, apiRets, returned >>

\* variant: the pass grants the first missing role it finds
ValidateOkRepairs(c) ==
  /\ pc[c] = "validate"
  /\ Issue(c, "get_iam_policy")
  /\ \E order \in Orders(ServiceAccounts(policy)) :
        /\ IamReturn(c, Valid(order, policy), Missing(order, policy))
        /\ IF Missing(order, policy) = <<>>
           THEN UNCHANGED << policy, lastWriter >>
           ELSE /\ policy' = AddBinding(policy,
                                        Member(Missing(order, policy)[1][1]),
                                        Missing(order, policy)[1][2])
                /\ lastWriter' = c
  /\ UNCHANGED << ctx, service, exc, svc, roleVars >>

ValidateOk(c) ==
  /\ pc[c] = "validate"
  /\ Issue(c, "get_iam_policy")
  /\ \E order \in Orders(ServiceAccounts(policy)) :
        IamReturn(c, Valid(order, policy), Missing(order, policy))
  /\ UNCHANGED << ctx, service, exc, remoteVars, roleVars >>

\* get_iam_policy raises inside _validate_iam_permissions
ValidateError(c) ==
  /\ pc[c] = "validate"
  /\ Issue(c, "get_iam_policy")
  /\ Raise(c, "get_iam_policy failed")
  /\ ValidateExcept(c, <<>>, <<>>, "get_iam_policy failed")
  /\ UNCHANGED << ctx, service, remoteVars, roleVars >>

\* _rotate_service_account_keys (no remote call), then the overall status
Rotate(c) ==
  /\ pc[c] = "rotate"
  /\ LET r == [results[c] EXCEPT !.keys_rotated = <<>>, !.keys_failed = <<>>]
     IN results' = [results EXCEPT ![c] =
                      [r EXCEPT !.overall_status = OverallStatus(r)]]
  /\ returned' = [returned EXCEPT ![c] = Append(@, << <<>>, <<>> >>)]
  /\ pc' = [pc EXCEPT ![c] = "done"]
  /\ UNCHANGED << ctx, calls, ret, arg, idx, enabled, failed, apiRets,
                  passes, service, exc, remoteVars, roleVars >>

\* the exception a sub-pass lets out, by the sub-pass that pc stands in
PassError(p) ==
  CASE p = "get_service" -> "_ensure_required_apis raised"
    [] p = "validate" -> "_validate_iam_permissions raised"
    [] p = "rotate" -> "_rotate_service_account_keys raised"
    [] OTHER -> None

PassErrors == {PassError(p) : p \in {"get_service", "validate", "rotate"}}

\* an exception leaves the running sub-pass (raised outside the sub-pass'
\* own try, or by its handler) and reaches ensure_environment's try
SubPassRaises(c) ==
  /\ ctx[c] = "ensure_environment"
  /\ pc[c] \in {"get_service", "validate", "rotate"}
  /\ Raise(c, PassError(pc[c]))
  /\ EnvExcept(c, PassError(pc[c]))
  /\ UNCHANGED << ctx, calls, service, remoteVars, roleVars >>

EnsureEnvironmentStep(c) ==
  \/ ValidateOk(c)
  \/ ValidateError(c)
  \/ Rotate(c)
  \/ SubPassRaises(c)

\* ---------------------------------------------------------- specifications
\* one caller runs one operation of the facade
Init ==
  /\ svc \in [Apis -> SvcStates]
  /\ policy \in InitPolicies
  /\ IdleCaller

Next ==
  \/ \E name \in Apis : CallEnsureApi(1, name)
  \/ \E sa_email \in SaEmails, role \in Roles : CallEnsureRole(1, sa_email, role)
  \/ CallEnsureEnvironment(1)
  \/ EnsureApiStep(1)
  \/ EnsureRoleStep(1)
  \/ EnsureEnvironmentStep(1)

Spec == Init /\ [][Next]_vars

\* two callers run ensure_role against the same project, one call each
InitRace ==
  /\ svc = [a \in Apis |-> "ENABLED"]
  /\ policy \in InitPolicies
  /\ IdleCaller

NextRace ==
  \E c \in Callers :
     \/ \E sa_email \in SaEmails, role \in Roles : CallEnsureRole(c, sa_email, role)
     \/ EnsureRoleStep(c)

SpecRace == InitRace /\ [][NextRace]_vars

\* ------------------------------------------------------------------ claims
Done(c) == pc[c] = "done"
Returned(c, op) == ctx[c] = op /\ Done(c)
Last(s) == s[Len(s)]

\* the failure/missing lists a report has
FailureLists(r) == << r.apis_failed, r.permissions_missing, r.keys_failed >>
NoFailures(r) == \A i \in 1..Len(FailureLists(r)) : FailureLists(r)[i] = <<>>

\* C1 as stated: in every report ensure_environment returns, overall_status
\* is "healthy" exactly when all failure/missing lists are empty, a non-empty
\* failure/missing list makes it "issues_found", and an exception that left a
\* sub-pass makes it "error".
C1_AsStated ==
  \A c \in Callers :
     Returned(c, "ensure_environment") =>
        /\ results[c].overall_status = "healthy" <=> NoFailures(results[c])
        /\ ~NoFailures(results[c]) => results[c].overall_status = "issues_found"
        /\ exc[c] \in PassErrors => results[c].overall_status = "error"

\* C1 amended: an exception that left a sub-pass makes the status "error"
\* whatever the lists hold; in every other returned report the status is
\* "healthy" when apis_failed, permissions_missing and keys_failed are all
\* empty and "issues_found" when one of them is not.
C1_Status ==
  \A c \in Callers :
     Returned(c, "ensure_environment") =>
        IF exc[c] \in PassErrors
        THEN results[c].overall_status = "error"
        ELSE /\ results[c].overall_status \in {"healthy", "issues_found"}
             /\ results[c].overall_status = "healthy" <=> NoFailures(results[c])

\* a report whose only non-empty failure/missing list is permissions_missing
C1_Witness ==
  \E c \in Callers :
     /\ Returned(c, "ensure_environment")
     /\ results[c].overall_status = "issues_found"
     /\ results[c].apis_failed = <<>>
     /\ results[c].permissions_missing # <<>>
     /\ Len(returned[c]) = 3

\* the lists of the report are those the completed sub-passes returned, and
\* empty for the sub-passes that did not complete
KeepsReturnedLists(c) ==
  LET n == Len(returned[c])
      Got(k, j) == IF k <= n THEN returned[c][k][j] ELSE <<>>
      r == results[c]
  IN /\ r.apis_enabled = Got(1, 1) /\ r.apis_failed = Got(1, 2)
     /\ r.permissions_valid = Got(2, 1) /\ r.permissions_missing = Got(2, 2)
     /\ r.keys_rotated = Got(3, 1) /\ r.keys_failed = Got(3, 2)

\* C2: ensure_environment never lets an exception out, whichever remote call
\* fails; while it has not returned it can always take a step; when an
\* exception reaches its try the report has status "error", carries the
\* exception's message and keeps the lists of the completed sub-passes.
C2_NeverRaises ==
  \A c \in Callers :
     ctx[c] = "ensure_environment" =>
        /\ pc[c] # "raised"
        /\ ~Done(c) => ENABLED (EnsureApiStep(c) \/ EnsureEnvironmentStep(c))
        /\ Done(c) =>
             /\ results[c].overall_status \in {"healthy", "issues_found", "error"}
             /\ KeepsReturnedLists(c)
        /\ (Done(c) /\ exc[c] \in PassErrors) =>
             /\ results[c].overall_status = "error"
             /\ results[c].error = exc[c]

\* the IAM pass lets an exception out after the API pass filed a failure
C2_Witness ==
  \E c \in Callers :
     /\ Returned(c, "ensure_environment")
     /\ exc[c] = PassError("validate")
     /\ results[c].overall_status = "error"
     /\ results[c].apis_failed # <<>>
     /\ results[c].apis_enabled # <<>>

\* C3: when get_service answers ENABLED, ensure_api returns True and sends
\* no enable_service request (its only remote call is that get_service).
C3_EnabledNoEnableCall ==
  \A c \in Callers :
     (service[c] = "ENABLED" /\ "get_service" \in Range(calls[c])) =>
        /\ calls[c] = <<"get_service">>
        /\ pc[c] \notin {"enable_service", "result"}
        /\ ctx[c] = "ensure_api" => Done(c) /\ ret[c] = TRUE
        /\ ctx[c] = "ensure_environment" => Last(apiRets[c]) = TRUE

C3_Witness ==
  \E c \in Callers :
     /\ Returned(c, "ensure_api")
     /\ service[c] = "ENABLED"
     /\ ret[c] = TRUE
     /\ svc[arg[c].name] = "ENABLED"

Wrote(c) == "set_iam_policy" \in Range(calls[c])
Own(c) == Member(arg[c].sa_email)
BindingsFor(pol, role) == {i \in 1..Len(pol) : pol[i].role = role}
Holds(pol, c) == RoleAssigned(pol, Own(c), arg[c].role)

\* C4: when the policy ensure_role read already assigns the role to the
\* principal, ensure_role returns True having made get_iam_policy its only
\* remote call: it sends no set_iam_policy and, no one else writing, the
\* remote policy is the one it read.  So an ensure_role(p, r) that reads the
\* policy a successful ensure_role(p, r) wrote performs no write.
C4_AssignedNoWrite ==
  /\ \A c \in Callers :
        (ctx[c] = "ensure_role" /\ Holds(snap[c], c)) =>
           /\ Done(c) /\ ret[c] = TRUE
           /\ calls[c] = <<"get_iam_policy">>
           /\ wrote[c] = <<>>
           /\ lastWriter # c
           /\ lastWriter = 0 => policy = snap[c]
  /\ \A c, d \in Callers :
        ( /\ c # d /\ Done(d) /\ ret[d] = TRUE /\ Wrote(d)
          /\ arg[c] = arg[d] /\ calls[c] # <<>> /\ exc[c] = None
          /\ snap[c] = wrote[d] ) =>
           /\ Done(c) /\ ret[c] = TRUE
           /\ ~Wrote(c)
           /\ policy = wrote[d]

\* a second ensure_role(p, r) ran right after a first one that wrote
C4_Witness ==
  \E c, d \in Callers :
     /\ c # d /\ Done(d) /\ ret[d] = TRUE /\ Wrote(d)
     /\ arg[c] = arg[d] /\ snap[c] = wrote[d]
     /\ Done(c) /\ ret[c] = TRUE /\ calls[c] = <<"get_iam_policy">>
     /\ policy = wrote[d]

\* C5: when the policy read has a binding for the role and none holds the
\* principal, the policy handed to set_iam_policy is the one read with the
\* principal appended to the members of the first binding of the role: no
\* binding is added, the role has as many bindings as before.
C5_AppendsToExisting ==
  \A c \in Callers :
     (ctx[c] = "ensure_role" /\ Wrote(c) /\ BindingsFor(snap[c], arg[c].role) # {}) =>
        LET with == BindingsFor(snap[c], arg[c].role)
            k == CHOOSE i \in with : \A j \in with : i <= j
        IN /\ ~Holds(snap[c], c)
           /\ Len(wrote[c]) = Len(snap[c])
           /\ BindingsFor(wrote[c], arg[c].role) = with
           /\ wrote[c][k].role = arg[c].role
           /\ wrote[c][k].members = Append(snap[c][k].members, Own(c))
           /\ \A i \in 1..Len(snap[c]) : i # k => wrote[c][i] = snap[c][i]

\* the spec's scenario: the role is bound to another member, the call succeeds
C5_Witness ==
  \E c \in Callers :
     /\ Returned(c, "ensure_role") /\ ret[c] = TRUE /\ Wrote(c)
     /\ \E i \in BindingsFor(snap[c], arg[c].role) : snap[c][i].members # <<>>
     /\ policy = wrote[c]
     /\ Holds(policy, c)

\* C6: when the policy read has no binding for the role, the policy handed
\* to set_iam_policy is the one read followed by one new binding, for that
\* role, whose members are the principal alone.
C6_CreatesOneBinding ==
  \A c \in Callers :
     (ctx[c] = "ensure_role" /\ Wrote(c) /\ BindingsFor(snap[c], arg[c].role) = {}) =>
        /\ Len(wrote[c]) = Len(snap[c]) + 1
        /\ SubSeq(wrote[c], 1, Len(snap[c])) = snap[c]
        /\ Last(wrote[c]) = [role |-> arg[c].role, members |-> <<Own(c)>>]
        /\ Cardinality(BindingsFor(wrote[c], arg[c].role)) = 1

C6_Witness ==
  \E c \in Callers :
     /\ Returned(c, "ensure_role") /\ ret[c] = TRUE /\ Wrote(c)
     /\ snap[c] # <<>>
     /\ BindingsFor(snap[c], arg[c].role) = {}
     /\ policy = wrote[c]

\* C7: set_iam_policy replaces the whole remote policy by the caller's
\* snapshot plus its own membership, whatever was written since the snapshot
\* was read: a membership another call granted in between, and which the
\* snapshot lacks, is gone from the remote policy although that call returned
\* True; and a membership whose ensure_role returned True is missing from the
\* remote policy only in that way.
C7_WholePolicyOverwrite ==
  \A c, d \in Callers :
     (c # d /\ ctx[c] = "ensure_role" /\ ctx[d] = "ensure_role") =>
        /\ lastWriter = c => policy = wrote[c]
        /\ ( /\ lastWriter = c /\ Done(d) /\ ret[d] = TRUE /\ Wrote(d)
             /\ ~Holds(snap[c], d) /\ arg[c] # arg[d] ) => ~Holds(policy, d)
        /\ (Done(d) /\ ret[d] = TRUE /\ ~Holds(policy, d)) =>
             (lastWriter = c /\ ~Holds(snap[c], d))

\* the lost update: both calls wrote and returned True, one grant is missing
C7_Witness ==
  /\ \A c \in Callers : Returned(c, "ensure_role") /\ ret[c] = TRUE /\ Wrote(c)
  /\ \E c \in Callers : ~Holds(policy, c)

\* C8: no failing remote call makes ensure_api or ensure_role raise: after
\* an exception other than get_service's NotFound the operation has returned
\* False; after a NotFound the enable request follows.
C8_FailuresReturnFalse ==
  \A c \in Callers :
     /\ pc[c] # "raised"
     /\ ctx[c] \in {"ensure_api", "ensure_role"} =>
          /\ exc[c] \notin {None, "NotFound"} => (Done(c) /\ ret[c] = FALSE)
          /\ exc[c] = "NotFound" =>
               (pc[c] = "enable_service" \/ "enable_service" \in Range(calls[c]))

\* get_service raised NotFound, the enable was attempted and failed
C8_Witness ==
  \E c \in Callers :
     /\ Returned(c, "ensure_api")
     /\ svc[arg[c].name] = "ABSENT"
     /\ calls[c] = <<"get_service", "enable_service">>
     /\ exc[c] = "enable_service failed"
     /\ ret[c] = FALSE

AllPasses == <<"api", "iam", "keys">>

PickBy(s, flags, want) ==
  LET n == IF Len(s) < Len(flags) THEN Len(s) ELSE Len(flags)
      Wanted(i) == flags[i] = want
      at == SelectSeq([i \in 1..n |-> i], Wanted)
  IN [k \in 1..Len(at) |-> s[at[k]]]

\* C10: ensure_api is called for the required APIs in list order, one call
\* each; apis_enabled holds, in that order, those for which it returned True
\* and apis_failed those for which it returned False, so every required API
\* is in exactly one of the two lists.
C10_ApisPartition ==
  \A c \in Callers :
     ctx[c] = "ensure_environment" =>
        /\ Len(apiRets[c]) <= Len(required_apis)
        /\ enabled[c] = PickBy(required_apis, apiRets[c], TRUE)
        /\ failed[c] = PickBy(required_apis, apiRets[c], FALSE)
        /\ Len(returned[c]) >= 1 =>
             /\ Len(apiRets[c]) = Len(required_apis)
             /\ results[c].apis_enabled = enabled[c]
             /\ results[c].apis_failed = failed[c]
             /\ \A a \in Apis :
                   InSeq(a, results[c].apis_enabled) # InSeq(a, results[c].apis_failed)

\* the first API failed, the next one was still processed and enabled
C10_Witness ==
  \E c \in Callers :
     /\ ctx[c] = "ensure_environment"
     /\ Len(returned[c]) >= 1
     /\ results[c].apis_failed = <<required_apis[1]>>
     /\ results[c].apis_enabled = SubSeq(required_apis, 2, Len(required_apis))
     /\ \E a \in Apis : svc[a] = "ENABLED" /\ InSeq(a, results[c].apis_enabled)

AllMembers(pol) == UNION {Range(pol[i].members) : i \in 1..Len(pol)}
Bound(pol, m, role) ==
  \E i \in 1..Len(pol) : pol[i].role = role /\ m \in Range(pol[i].members)
Entries(c) == results[c].permissions_valid \o results[c].permissions_missing
Count(s, e) == Cardinality({i \in 1..Len(s) : s[i] = e})
RoleIdx(role) == CHOOSE k \in 1..Len(critical_roles) : critical_roles[k] = role

\* _validate_iam_permissions has returned and get_iam_policy had answered
FetchOk(c) ==
  /\ ctx[c] = "ensure_environment"
  /\ Len(returned[c]) >= 2
  /\ exc[c] \notin PassErrors \cup {"get_iam_policy failed"}

\* the spec's scenario: svcA holds the first critical role only, svcB is a
\* member of a binding but holds no critical role
ScenarioPolicy ==
  << [role |-> critical_roles[1], members |-> <<Member("svcA")>>],
     [role |-> OtherRole, members |-> <<UserMember, Member("svcB")>>] >>

\* C11 as stated: after a successful fetch there is exactly one entry
\* "{principal}:{role}" for every principal among the members of the bindings
\* and every critical role, and in the scenario the lists are svcA's entries
\* followed by svcB's.
C11_AsStated ==
  \A c \in Callers :
     FetchOk(c) =>
        /\ \A m \in AllMembers(policy), role \in Range(critical_roles) :
              Count(Entries(c), <<m[2], role>>) = 1
        /\ policy = ScenarioPolicy =>
              /\ results[c].permissions_valid = << <<"svcA", critical_roles[1]>> >>
              /\ results[c].permissions_missing =
                   [ k \in 1..(2 * Len(critical_roles) - 1) |->
                       IF k < Len(critical_roles)
                       THEN <<"svcA", critical_roles[k + 1]>>
                       ELSE <<"svcB", critical_roles[k - Len(critical_roles) + 1]>> ]

OrderedByRole(s) ==
  \A i, j \in 1..Len(s) :
     (i < j /\ s[i][1] = s[j][1]) => RoleIdx(s[i][2]) < RoleIdx(s[j][2])

\* C11 amended: after a successful fetch there is exactly one entry
\* "{sa_email}:{role}" for every member of a binding that starts with
\* "serviceAccount:" and every critical role, in the valid list when some
\* binding of that role holds the member and in the missing list otherwise;
\* there is no other entry (none for a member of another kind); the entries
\* of one account follow the order of critical_roles, the order of the
\* accounts is not fixed.
C11_Entries ==
  \A c \in Callers :
     FetchOk(c) =>
        LET sas == {m \in AllMembers(policy) : m[1] = "serviceAccount"}
        IN /\ \A m \in sas, role \in Range(critical_roles) :
                 /\ Count(Entries(c), <<m[2], role>>) = 1
                 /\ InSeq(<<m[2], role>>, results[c].permissions_valid)
                      <=> Bound(policy, m, role)
           /\ \A e \in Range(Entries(c)) :
                 \E m \in sas, role \in Range(critical_roles) : e = <<m[2], role>>
           /\ OrderedByRole(results[c].permissions_valid)
           /\ OrderedByRole(results[c].permissions_missing)

\* the scenario: one valid entry, nine missing ones, svcB's before svcA's
C11_Witness ==
  \E c \in Callers :
     /\ FetchOk(c)
     /\ policy = ScenarioPolicy
     /\ results[c].permissions_valid = << <<"svcA", critical_roles[1]>> >>
     /\ Len(results[c].permissions_missing) = 2 * Len(critical_roles) - 1
     /\ results[c].permissions_missing[1][1] = "svcB"

\* C12: when get_iam_policy raises in _validate_iam_permissions, the pass
\* returns an empty valid list and a missing list holding the one entry
\* "validation_error: <message>"; the exception stays inside the pass, the
\* key pass follows, and the report's status is "issues_found", not "error".
C12_FetchFailure ==
  \A c \in Callers :
     (ctx[c] = "ensure_environment" /\ exc[c] = "get_iam_policy failed") =>
        /\ pc[c] \in {"rotate", "done"}
        /\ Len(returned[c]) >= 2
        /\ returned[c][2] = << <<>>, << <<"validation_error", exc[c]>> >> >>
        /\ results[c].permissions_valid = <<>>
        /\ results[c].permissions_missing = << <<"validation_error", exc[c]>> >>
        /\ results[c].overall_status # "error"
        /\ Done(c) => /\ results[c].overall_status = "issues_found"
                      /\ passes[c] = AllPasses

\* the failed fetch is the only failure of the pass
C12_Witness ==
  \E c \in Callers :
     /\ Returned(c, "ensure_environment")
     /\ exc[c] = "get_iam_policy failed"
     /\ results[c].apis_failed = <<>>
     /\ Len(results[c].permissions_missing) = 1
     /\ results[c].overall_status = "issues_found"

ReadOnlyAndEnableCalls ==
  {"get_service", "enable_service", "result", "get_iam_policy"}

\* C13: a run of ensure_environment issues no set_iam_policy: its remote
\* calls are get_service, enable_service, the wait for the enable and
\* get_iam_policy; no step of it changes the remote policy, so the pairs it
\* reports missing are still missing from the policy when it returns; the
\* only remote state it changes is a service becoming ENABLED after its
\* enable_service.
C13_PolicyNeverWritten ==
  /\ [](\A c \in Callers :
          ctx[c] = "ensure_environment" =>
             /\ Range(calls[c]) \subseteq ReadOnlyAndEnableCalls
             /\ pc[c] \notin {"get_iam_policy", "set_iam_policy"}
             /\ wrote[c] = <<>>
             /\ lastWriter = 0
             /\ FetchOk(c) =>
                  /\ \A e \in Range(results[c].permissions_missing) :
                        ~Bound(policy, Member(e[1]), e[2])
                  /\ \A e \in Range(results[c].permissions_valid) :
                        Bound(policy, Member(e[1]), e[2]))
  /\ [][\A c \in Callers :
          ctx[c] = "ensure_environment" =>
             /\ policy' = policy
             /\ \A a \in Apis :
                   svc'[a] # svc[a] =>
                      /\ svc'[a] = "ENABLED"
                      /\ calls'[c] = <<"get_service", "enable_service", "result">>
                      /\ arg[c].name = a]_vars

\* a returned report whose missing pairs the policy still lacks
C13_Witness ==
  \E c \in Callers :
     /\ Returned(c, "ensure_environment")
     /\ FetchOk(c)
     /\ results[c].permissions_missing # <<>>
     /\ \E e \in Range(results[c].permissions_missing) :
           ~Bound(policy, Member(e[1]), e[2])
     /\ results[c].apis_enabled = required_apis
     /\ results[c].overall_status = "issues_found"

Memberships(pol) ==
  UNION { {<<pol[i].role, m>> : m \in Range(pol[i].members)} : i \in 1..Len(pol) }
MemberSlots(pol) ==
  UNION { {<<i, j>> : j \in 1..Len(pol[i].members)} : i \in 1..Len(pol) }
IsPrefix(s, t) == Len(s) <= Len(t) /\ SubSeq(t, 1, Len(s)) = s

\* C14: an ensure_role that writes makes one set_iam_policy call, after its
\* get_iam_policy; the policy it sends keeps every binding of the policy it
\* read, in place and with its members in place, and differs from it by one
\* member only: the principal, under the role.  An accepted write makes that
\* policy the remote one.
C14_WritesReadPlusOne ==
  \A c \in Callers :
     (ctx[c] = "ensure_role" /\ Wrote(c)) =>
        /\ calls[c] = <<"get_iam_policy", "set_iam_policy">>
        /\ Len(snap[c]) <= Len(wrote[c])
        /\ Len(wrote[c]) <= Len(snap[c]) + 1
        /\ \A i \in 1..Len(snap[c]) :
              /\ wrote[c][i].role = snap[c][i].role
              /\ IsPrefix(snap[c][i].members, wrote[c][i].members)
        /\ Cardinality(MemberSlots(wrote[c])) = Cardinality(MemberSlots(snap[c])) + 1
        /\ <<arg[c].role, Own(c)>> \notin Memberships(snap[c])
        /\ Memberships(wrote[c]) = Memberships(snap[c]) \cup {<<arg[c].role, Own(c)>>}
        /\ (Done(c) /\ ret[c] = TRUE /\ lastWriter = c) => policy = wrote[c]

\* the policy read had two bindings with members, of which one was the role's
C14_Witness ==
  \E c \in Callers :
     /\ Returned(c, "ensure_role") /\ ret[c] = TRUE /\ Wrote(c)
     /\ Len(snap[c]) = 2
     /\ \A i \in 1..2 : snap[c][i].members # <<>>
     /\ snap[c][1].role # arg[c].role
     /\ snap[c][2].role = arg[c].role
     /\ policy = wrote[c]
     /\ Memberships(snap[c]) \subseteq Memberships(policy)

====
